---- MODULE Spec2Model ----
(***************************************************************************)
(* A model of the user service of src/main.rs: two routes                  *)
(* (GET /users/:user_id, POST /users) whose handlers call an injected      *)
(* repository (DynUserRepo) and turn repository errors into HTTP           *)
(* responses (AppError::into_response).                                    *)
(*                                                                         *)
(* Text is modelled as a sequence of one-character strings wherever the    *)
(* code looks at its characters (paths, rendered identifiers); usernames   *)
(* and messages, which the code only moves around, are plain strings.      *)
(* A Uuid is its 16 bytes, as in the uuid crate.                           *)
(***************************************************************************)
EXTENDS Integers, Sequences, FiniteSets

VARIABLES
    repo,          \* the repository behind the Arc<dyn UserRepo> handle of the router
    pc,            \* per request slot: position of the request in the server
    req,           \* per request slot: the HTTP request being served
    extracted,     \* per request slot: the value the handler's extractor decoded
    ret,           \* per request slot: what the repository call returned
    resp,          \* per request slot: the HTTP response
    created        \* the bodies of the 200 responses to POST /users so far, in order

vars == <<repo, pc, req, extracted, ret, resp, created>>

\* ----------------------------------------------------------------- bounds

\* Number of requests the server handles concurrently.
NumSlots == 2

\* Number of POST /users requests accepted over a run.
MaxPosts == 2

Slots == 1..NumSlots

\* ------------------------------------------------------------ identifiers

\* Lowercase and uppercase hexadecimal digits, by value.
HexLower == <<"0","1","2","3","4","5","6","7","8","9","a","b","c","d","e","f">>

HexUpper == <<"0","1","2","3","4","5","6","7","8","9","A","B","C","D","E","F">>

\* The 8-4-4-4-12 layout: after which byte a hyphen follows.
HyphenAfter == {4, 6, 8, 10}

\* Two lowercase hexadecimal digits of one byte.
ByteHex(b) == <<HexLower[(b \div 16) + 1], HexLower[(b % 16) + 1]>>

RECURSIVE HyphenatedFrom(_, _)
HyphenatedFrom(id, i) ==
    IF i > Len(id) THEN <<>>
    ELSE ByteHex(id[i])
         \o (IF i \in HyphenAfter THEN <<"-">> ELSE <<>>)
         \o HyphenatedFrom(id, i + 1)

\* Uuid's Display: the canonical lowercase hyphenated form, 36 characters.
ToString(id) == HyphenatedFrom(id, 1)

\* The value of each hexadecimal digit, of either case.
HexValues ==
    [c \in {HexLower[i] : i \in 1..16} \cup {HexUpper[i] : i \in 1..16} |->
        IF \E i \in 1..16 : HexLower[i] = c
        THEN (CHOOSE i \in 1..16 : HexLower[i] = c) - 1
        ELSE (CHOOSE i \in 1..16 : HexUpper[i] = c) - 1]

\* Value of a hexadecimal digit, -1 for any other character.
HexVal(c) == IF c \in DOMAIN HexValues THEN HexValues[c] ELSE -1

ParseError == [ok |-> FALSE]

\* ParseSimple with the two digits of each byte taken in the wrong order.
ParseSimple_swapped(s) ==
    IF Len(s) = 32 /\ \A i \in 1..32 : HexVal(s[i]) >= 0
    THEN [ok |-> TRUE,
          id |-> [k \in 1..16 |-> 16 * HexVal(s[2 * k]) + HexVal(s[2 * k - 1])]]
    ELSE ParseError

\* 32 hexadecimal digits to 16 bytes.
ParseSimple(s) ==
    IF Len(s) = 32 /\ \A i \in 1..32 : HexVal(s[i]) >= 0
    THEN [ok |-> TRUE,
          id |-> [k \in 1..16 |-> 16 * HexVal(s[2 * k - 1]) + HexVal(s[2 * k])]]
    ELSE ParseError

\* The hyphen positions counted from zero.
HyphenPositions_off == {8, 13, 18, 23}

HyphenPositions == {9, 14, 19, 24}

RECURSIVE DropHyphens(_, _)
DropHyphens(s, i) ==
    IF i > Len(s) THEN <<>>
    ELSE (IF i \in HyphenPositions THEN <<>> ELSE <<s[i]>>) \o DropHyphens(s, i + 1)

\* The 36-character hyphenated form.
ParseHyphenated(s) ==
    IF Len(s) = 36 /\ \A i \in HyphenPositions : s[i] = "-"
    THEN ParseSimple(DropHyphens(s, 1))
    ELSE ParseError

UrnPrefix == <<"u","r","n",":","u","u","i","d",":">>

\* Uuid::parse_str: simple, hyphenated, braced and URN forms, either case.
ParseStr(s) ==
    CASE Len(s) = 32 -> ParseSimple(s)
      [] Len(s) = 36 -> ParseHyphenated(s)
      [] Len(s) = 38 /\ s[1] = "{" /\ s[38] = "}" -> ParseHyphenated(SubSeq(s, 2, 37))
      [] Len(s) = 45 /\ SubSeq(s, 1, 9) = UrnPrefix -> ParseHyphenated(SubSeq(s, 10, 45))
      [] OTHER -> ParseError

\* new_v4 that leaves the random bytes as they are.
new_v4_raw(rnd) == rnd

\* Uuid::new_v4 on the 16 random bytes the generator yields: the version
\* nibble becomes 4 and the variant bits become 10.
new_v4(rnd) ==
    [k \in 1..16 |->
        IF k = 7 THEN 64 + (rnd[k] % 16)
        ELSE IF k = 9 THEN 128 + (rnd[k] % 64)
        ELSE rnd[k]]

\* ------------------------------------------------------------- repository

UserRepoError == {"NotFound", "InvalidUsername"}

Ok(user) == [tag |-> "Ok", user |-> user]

Err(e) == [tag |-> "Err", err |-> e]

\* No repository call made (yet) for the request.
NoCall == [tag |-> "NoCall"]

User(id, username) == [id |-> id, username |-> username]

CreateUser(username) == [username |-> username]

\* find that reports NotFound when 'a' occurs anywhere in the string.
find_anyA(id) ==
    LET s == ToString(id)
    IN  IF \A i \in 1..Len(s) : s[i] # "a"
        THEN [tag |-> "Ok", user |-> [id |-> id, username |-> "example"]]
        ELSE [tag |-> "Err", err |-> "NotFound"]

\* find over a store: only before any user was created does it answer by the
\* stub rule.
find_stateful(id) ==
    IF created = <<>> /\ ToString(id)[1] # "a"
    THEN [tag |-> "Ok", user |-> [id |-> id, username |-> "example"]]
    ELSE [tag |-> "Err", err |-> "NotFound"]

\* ExampleUserRepo::find
find(id) ==
    LET s == ToString(id)
    IN  IF Len(s) > 0 /\ s[1] # "a"
        THEN Ok(User(id, "example"))
        ELSE Err("NotFound")

\* create that keeps the supplied username.
create_echo(params, rnd) ==
    [tag |-> "Ok", user |-> [id |-> new_v4(rnd), username |-> params.username]]

\* create that enforces a rule on the username.
create_validating(params, rnd) ==
    IF params.username = ""
    THEN [tag |-> "Err", err |-> "InvalidUsername"]
    ELSE [tag |-> "Ok", user |-> [id |-> new_v4(rnd), username |-> "new example"]]

\* ExampleUserRepo::create; rnd is what the random generator yields.
create(params, rnd) == Ok(User(new_v4(rnd), "new example"))

ExampleUserRepo == "ExampleUserRepo"

\* Some other implementation of the UserRepo trait behind the handle.
OtherUserRepo == "dyn UserRepo"
\* What the random generator can yield for one new_v4 call.
RandomBytes ==
    { <<167, 17, 34, 51, 68, 85, 255, 119, 255, 153, 170, 187, 204, 221, 238, 1>>,
      << 58, 17, 34, 51, 68, 85,  10, 119,   0, 153, 170, 187, 204, 221, 238, 2>> }

\* repo.find(user_id) through the Arc<dyn UserRepo> handle: the results the
\* implementation behind the handle can return.
repo_find(self, id) ==
    IF self = ExampleUserRepo
    THEN {find(id)}
    ELSE {Ok(User(id, "stored"))} \cup {Err(e) : e \in UserRepoError}

\* repo.create(params) through the handle.
repo_create(self, params) ==
    IF self = ExampleUserRepo
    THEN {create(params, rnd) : rnd \in RandomBytes}
    ELSE {Ok(User(new_v4(CHOOSE rnd \in RandomBytes : TRUE), "stored"))}
         \cup {Err(e) : e \in UserRepoError}

\* ------------------------------------------------------- error mapping

\* impl From<UserRepoError> for AppError
From(err) == [tag |-> "UserRepo", err |-> err]

JsonContentType == "application/json"

TextContentType == "text/plain; charset=utf-8"

Response(status, content_type, body) ==
    [status |-> status, content_type |-> content_type, body |-> body]

\* into_response with the two arms exchanged.
into_response_swapped(self) ==
    LET status_message ==
            CASE self = From("NotFound") -> <<400, "invalid username">>
              [] self = From("InvalidUsername") -> <<404, "user not found">>
    IN  Response(status_message[1], JsonContentType, [error |-> status_message[2]])

\* into_response whose second arm repeats the first.
into_response_same(self) ==
    Response(404, JsonContentType, [error |-> "user not found"])

\* impl IntoResponse for AppError
into_response(self) ==
    LET status_message ==
            CASE self = From("NotFound") -> <<404, "user not found">>
              [] self = From("InvalidUsername") -> <<400, "invalid username">>
    IN  Response(status_message[1], JsonContentType, [error |-> status_message[2]])

\* Json<User> as a response: 200 with the serialized User; a Uuid serializes
\* as its canonical string.
JsonUser(user) ==
    Response(200, JsonContentType, [id |-> ToString(user.id), username |-> user.username])

\* What a handler's Result<Json<User>, AppError> becomes, given the repository's
\* result: `?` converts the error with From, Ok(user.into()) wraps the user.
HandlerResponse(result) ==
    IF result.tag = "Ok"
    THEN JsonUser(result.user)
    ELSE into_response(From(result.err))

\* ------------------------------------------------------------ extractors

Accepted(value) == [ok |-> TRUE, value |-> value]

Rejected(status, text) ==
    [ok |-> FALSE, response |-> Response(status, TextContentType, [text |-> text])]

\* Path extraction that falls back to the nil identifier when parsing fails.
PathExtract_lenient(rq) ==
    LET p == ParseStr(rq.user_id)
    IN  Accepted(IF p.ok THEN p.id ELSE [k \in 1..16 |-> 0])

\* Path<Uuid>: the path parameter parsed as a Uuid, or a 400 rejection.
PathExtract(rq) ==
    LET p == ParseStr(rq.user_id)
    IN  IF p.ok THEN Accepted(p.id) ELSE Rejected(400, "Invalid URL")

\* Deserialize for CreateUser from a JSON value: an object with exactly one
\* "username" member, a string; other members are ignored.
DeserializeCreateUser(v) ==
    IF v.t # "object" THEN [ok |-> FALSE]
    ELSE LET at == {i \in 1..Len(v.members) : v.members[i].key = "username"}
         IN  IF Cardinality(at) # 1 THEN [ok |-> FALSE]
             ELSE LET m == v.members[CHOOSE i \in at : TRUE].val
                  IN  IF m.t = "string"
                      THEN [ok |-> TRUE, value |-> CreateUser(m.s)]
                      ELSE [ok |-> FALSE]

\* Json<CreateUser>: the content type is checked first, then the body is read
\* up to the default body limit, then its syntax is checked, then its shape.
JsonExtract(rq) ==
    IF rq.content_type # JsonContentType
    THEN Rejected(415, "Expected request with Content-Type: application/json")
    ELSE IF ~rq.body.within_limit
    THEN Rejected(413, "Failed to buffer the request body")
    ELSE IF ~rq.body.well_formed
    THEN Rejected(400, "Failed to parse the request body as JSON")
    ELSE LET d == DeserializeCreateUser(rq.body.value)
         IN  IF d.ok
             THEN Accepted(d.value)
             ELSE Rejected(422, "Failed to deserialize the JSON body into the target type")
\* ---------------------------------------------------------------- requests

\* bd8197e0-8a30-4e7c-9c93-972fd13ed4c8, the identifier of test_users_show_found
FoundId == <<189, 129, 151, 224, 138, 48, 78, 124, 156, 147, 151, 47, 209, 62, 212, 200>>

\* ad8197e0-8a30-4e7c-9c93-972fd13ed4c8, the identifier of test_users_show_not_found
NotFoundId == <<173, 129, 151, 224, 138, 48, 78, 124, 156, 147, 151, 47, 209, 62, 212, 200>>

\* 0a8197e0-...: an 'a' in second place only
SecondAId == <<10, 129, 151, 224, 138, 48, 78, 124, 156, 147, 151, 47, 209, 62, 212, 200>>

\* A client writing the digits in upper case.
UpperCase(s) == [i \in 1..Len(s) |-> IF HexVal(s[i]) >= 10 THEN HexUpper[HexVal(s[i]) + 1] ELSE s[i]]

\* ag8197e0-...: 36 characters, one of them no hexadecimal digit
BadPath == [ToString(NotFoundId) EXCEPT ![2] = "g"]

\* The {id} segments of the tests and their variants: canonical, upper case,
\* with a character that is no hexadecimal digit.
FixedPaths ==
    { ToString(FoundId), ToString(NotFoundId), ToString(SecondAId),
      UpperCase(ToString(NotFoundId)),
      BadPath }

\* The {id} segments clients send: the fixed ones and the identifiers that
\* earlier POST /users responses returned.
RequestPaths == FixedPaths \cup { created[i].id : i \in 1..Len(created) }

JsonString(s) == [t |-> "string", s |-> s]

JsonNumber(n) == [t |-> "number", n |-> n]

JsonObject(members) == [t |-> "object", members |-> members]

Member(key, val) == [key |-> key, val |-> val]

WellFormed(value) == [well_formed |-> TRUE, within_limit |-> TRUE, value |-> value]

\* A body that is not JSON at all.
Malformed == [well_formed |-> FALSE, within_limit |-> TRUE]

\* {"username": <a string longer than the default body limit>}
OverLimitBody ==
    [well_formed |-> TRUE, within_limit |-> FALSE,
     value |-> JsonObject(<<Member("username", JsonString("a username longer than the body limit"))>>)]

\* {"username":"example"}, the body of test_users_create
ExampleBody == WellFormed(JsonObject(<<Member("username", JsonString("example"))>>))

\* The bodies clients send: {"username":"example"}, {"username":""},
\* {"username":42}, {} and a body that is not JSON.
RequestBodies ==
    { ExampleBody,
      WellFormed(JsonObject(<<Member("username", JsonString(""))>>)),
      WellFormed(JsonObject(<<Member("username", JsonNumber(42))>>)),
      WellFormed(JsonObject(<<>>)),
      Malformed }

\* No Content-Type header on the request.
NoContentType == "none"

GetRequests == [method : {"GET"}, user_id : RequestPaths]

\* POST /users with a JSON content type and each body, a body over the body
\* limit, and the test's body sent without a content type.
PostRequests ==
    [method : {"POST"}, content_type : {JsonContentType},
     body : RequestBodies \cup {OverLimitBody}]
    \cup [method : {"POST"}, content_type : {NoContentType}, body : {ExampleBody}]

NoRequest == [method |-> "none"]

Nothing == [tag |-> "Nothing"]

NoResponse == [status |-> 0]

\* POST requests whose handler has yet to run.
PendingPosts == {r \in Slots : req[r].method = "POST" /\ pc[r] = "handler"}

\* ----------------------------------------------------------------- actions

\* main: the router is built over one ExampleUserRepo; nothing is in flight.
Init ==
    /\ repo = ExampleUserRepo
    /\ pc = [r \in Slots |-> "idle"]
    /\ req = [r \in Slots |-> NoRequest]
    /\ extracted = [r \in Slots |-> Nothing]
    /\ ret = [r \in Slots |-> NoCall]
    /\ resp = [r \in Slots |-> NoResponse]
    /\ created = <<>>

\* app over any implementation of the trait.
InitDyn ==
    /\ repo \in {ExampleUserRepo, OtherUserRepo}
    /\ pc = [r \in Slots |-> "idle"]
    /\ req = [r \in Slots |-> NoRequest]
    /\ extracted = [r \in Slots |-> Nothing]
    /\ ret = [r \in Slots |-> NoCall]
    /\ resp = [r \in Slots |-> NoResponse]
    /\ created = <<>>

\* The router takes request rq and runs the extractors of the route's handler,
\* with outcome e: on rejection the rejection is the response and the handler
\* body never runs.
Route(r, rq, e) ==
    /\ pc[r] = "idle"
    /\ req' = [req EXCEPT ![r] = rq]
    /\ IF e.ok
       THEN /\ extracted' = [extracted EXCEPT ![r] = e.value]
            /\ pc' = [pc EXCEPT ![r] = "handler"]
            /\ resp' = resp
       ELSE /\ resp' = [resp EXCEPT ![r] = e.response]
            /\ pc' = [pc EXCEPT ![r] = "done"]
            /\ extracted' = extracted
    /\ UNCHANGED <<repo, ret, created>>

\* route("/users/:user_id", get(users_show)) with users_show's extractors:
\* Path(user_id), State(repo)
get_users_show(r) ==
    \E rq \in GetRequests : Route(r, rq, PathExtract(rq))

\* route("/users", post(users_create)) with users_create's extractors:
\* State(repo), Json(params)
post_users_create(r) ==
    /\ Len(created) + Cardinality(PendingPosts) < MaxPosts
    /\ \E rq \in PostRequests : Route(r, rq, JsonExtract(rq))

\* users_show: repo.find(user_id).await?, Ok(user.into()), and the Result
\* turned into the response.
users_show(r) ==
    /\ pc[r] = "handler"
    /\ req[r].method = "GET"
    /\ \E result \in repo_find(repo, extracted[r]) :
          /\ ret' = [ret EXCEPT ![r] = result]
          /\ resp' = [resp EXCEPT ![r] = HandlerResponse(result)]
    /\ pc' = [pc EXCEPT ![r] = "done"]
    /\ UNCHANGED <<repo, req, extracted, created>>

\* users_create: repo.create(params).await?, Ok(user.into()), and the Result
\* turned into the response; a 200 response adds its body to the record of
\* creations.
users_create(r) ==
    /\ pc[r] = "handler"
    /\ req[r].method = "POST"
    /\ \E result \in repo_create(repo, extracted[r]) :
          /\ ret' = [ret EXCEPT ![r] = result]
          /\ resp' = [resp EXCEPT ![r] = HandlerResponse(result)]
          /\ created' = IF result.tag = "Ok"
                        THEN Append(created, HandlerResponse(result).body)
                        ELSE created
    /\ pc' = [pc EXCEPT ![r] = "done"]
    /\ UNCHANGED <<repo, req, extracted>>

\* The response is written out; the request and its locals are dropped.
Complete(r) ==
    /\ pc[r] = "done"
    /\ pc' = [pc EXCEPT ![r] = "idle"]
    /\ req' = [req EXCEPT ![r] = NoRequest]
    /\ extracted' = [extracted EXCEPT ![r] = Nothing]
    /\ ret' = [ret EXCEPT ![r] = NoCall]
    /\ resp' = [resp EXCEPT ![r] = NoResponse]
    /\ UNCHANGED <<repo, created>>

Next ==
    \E r \in Slots :
        \/ get_users_show(r)
        \/ post_users_create(r)
        \/ users_show(r)
        \/ users_create(r)
        \/ Complete(r)

\* The server as main builds it.
Spec == Init /\ [][Next]_vars

\* The server over any repository implementing the trait.
SpecDyn == InitDyn /\ [][Next]_vars
\* -------------------------------------------------------------- properties

\* The identifiers the requests of the model are about.
IdsInPlay == {FoundId, NotFoundId, SecondAId} \cup {new_v4(rnd) : rnd \in RandomBytes}

\* The spellings of each identifier that clients send.
FormsOf == [id \in IdsInPlay |-> {ToString(id), UpperCase(ToString(id))}]

Forms(id) == FormsOf[id]

\* The canonical string form of id starts with 'a': its first hexadecimal
\* digit, the high half of its first byte, is ten.
StartsWithA(id) == id[1] \div 16 = 10

\* Slot r holds an answered GET /users/{id} whose {id} spells id.
AnsweredGet(r, id) ==
    /\ pc[r] = "done"
    /\ req[r].method = "GET"
    /\ req[r].user_id \in Forms(id)

\* C1: a GET /users/{id} for an identifier whose canonical form does not start
\* with 'a' is answered 200 OK, whatever was served before it.
C1_FoundReturnsOk ==
    \A r \in Slots, id \in IdsInPlay :
        AnsweredGet(r, id) /\ ~StartsWithA(id) => resp[r].status = 200

\* C1 happens: after a creation was served, a GET for an identifier with 'a'
\* in second place only is answered 200.
C1_Witness ==
    \E r \in Slots :
        /\ AnsweredGet(r, SecondAId)
        /\ resp[r].status = 200
        /\ created # <<>>

\* C2: a GET /users/{id} for an identifier whose canonical form starts with
\* 'a' is answered 404 with body {"error": "user not found"}: find returned
\* NotFound and that error reached the error mapping unchanged.
C2_NotFoundReturns404 ==
    \A r \in Slots, id \in IdsInPlay :
        AnsweredGet(r, id) /\ StartsWithA(id) =>
            /\ ret[r] = Err("NotFound")
            /\ resp[r].status = 404
            /\ resp[r].body = [error |-> "user not found"]

\* C2 happens: the identifier of test_users_show_not_found, spelled in upper
\* case, is answered 404.
C2_Witness ==
    \E r \in Slots :
        /\ pc[r] = "done"
        /\ req[r].method = "GET"
        /\ req[r].user_id = UpperCase(ToString(NotFoundId))
        /\ resp[r].status = 404

\* The body is JSON of shape {"username": <string>}.
UsernameShape(body) ==
    /\ body.well_formed
    /\ body.value.t = "object"
    /\ Len(body.value.members) = 1
    /\ body.value.members[1].key = "username"
    /\ body.value.members[1].val.t = "string"

\* The response is 200 with a 36-character identifier that parses and the
\* username "new example".
NewExampleResponse(rsp) ==
    /\ rsp.status = 200
    /\ Len(rsp.body.id) = 36
    /\ ParseStr(rsp.body.id).ok
    /\ rsp.body.username = "new example"

\* C3 as stated: any POST /users whose body is JSON of shape
\* {"username": <string>} is answered 200 with a well-formed identifier and
\* the username "new example".
C3_AnyValidBodyCreates ==
    \A r \in Slots :
        pc[r] = "done" /\ req[r].method = "POST" /\ UsernameShape(req[r].body)
            => NewExampleResponse(resp[r])

\* C3 amended: a POST /users sent with Content-Type application/json whose
\* body is JSON of shape {"username": <string>} and no longer than the body
\* limit is answered 200 with a well-formed identifier and the username
\* "new example", whatever the username supplied.
C3_JsonRequestCreates ==
    \A r \in Slots :
        /\ pc[r] = "done"
        /\ req[r].method = "POST"
        /\ req[r].content_type = JsonContentType
        /\ req[r].body.within_limit
        /\ UsernameShape(req[r].body)
        => NewExampleResponse(resp[r])

\* C3 happens: the request of test_users_create is answered.
C3_Witness ==
    \E r \in Slots :
        /\ pc[r] = "done"
        /\ req[r].method = "POST"
        /\ req[r].content_type = JsonContentType
        /\ req[r].body = ExampleBody
        /\ NewExampleResponse(resp[r])

\* C4 as stated: no two creations return the same identifier, and all return
\* the same username.
C4_DistinctIdentifiers ==
    \A i, j \in 1..Len(created) :
        i < j => /\ created[i].id # created[j].id
                 /\ created[i].username = created[j].username

\* The string is the canonical form of a version-4 identifier.
IsV4(s) ==
    /\ Len(s) = 36
    /\ s[15] = "4"
    /\ s[20] \in {"8", "9", "a", "b"}
    /\ ParseStr(s).ok

\* C4 amended: all creations return the same username, and each returns a
\* version-4 identifier drawn at random for that call; nothing keeps two
\* draws from being equal.
C4_SameUsernameRandomIds ==
    /\ \A i, j \in 1..Len(created) : created[i].username = created[j].username
    /\ \A i \in 1..Len(created) : IsV4(created[i].id)

\* C4 happens: two creations were answered with different identifiers.
C4_Witness ==
    /\ Len(created) >= 2
    /\ created[1].id # created[2].id
\* The row of the mapping table for error kind e.
TableRow(e) ==
    IF e = "NotFound"
    THEN [status |-> 404, message |-> "user not found"]
    ELSE [status |-> 400, message |-> "invalid username"]

\* C5: over any repository, every error kind a repository call returns is
\* answered by its fixed row of the table: NotFound by 404 "user not found",
\* InvalidUsername by 400 "invalid username", in a JSON body whose only
\* field is "error"; the mapping is defined on both kinds.
C5_MappingTotalFixed ==
    /\ \A e \in UserRepoError :
          into_response(From(e)).body.error \in {"user not found", "invalid username"}
    /\ \A r \in Slots :
          pc[r] = "done" /\ ret[r].tag = "Err" =>
              /\ ret[r].err \in UserRepoError
              /\ resp[r].status = TableRow(ret[r].err).status
              /\ resp[r].content_type = JsonContentType
              /\ DOMAIN resp[r].body = {"error"}
              /\ resp[r].body.error = TableRow(ret[r].err).message

\* C5 happens: one request was answered from the NotFound row while another
\* was answered from the InvalidUsername row.
C5_Witness ==
    \E r, s \in Slots :
        /\ pc[r] = "done" /\ ret[r] = Err("NotFound") /\ resp[r].status = 404
        /\ pc[s] = "done" /\ ret[s] = Err("InvalidUsername") /\ resp[s].status = 400

\* C6: with ExampleUserRepo behind the handle no repository call returns
\* InvalidUsername, no response is 400 "invalid username", and every create
\* that is called succeeds.
C6_InvalidUsernameUnreachable ==
    \A r \in Slots :
        /\ ret[r] # Err("InvalidUsername")
        /\ pc[r] = "done" =>
              ~(resp[r].status = 400 /\ resp[r].body = [error |-> "invalid username"])
        /\ pc[r] = "done" /\ req[r].method = "POST" /\ ret[r] # NoCall =>
              ret[r].tag = "Ok" /\ resp[r].status = 200

\* C6 happens: a creation with the empty username succeeded while another
\* request was answered 400 by a rejection.
C6_Witness ==
    \E r, s \in Slots :
        /\ pc[r] = "done"
        /\ req[r].method = "POST"
        /\ extracted[r] = CreateUser("")
        /\ ret[r].tag = "Ok"
        /\ pc[s] = "done"
        /\ resp[s].status = 400

\* The bodies of RequestBodies that do not decode as a CreateUser.
UndecodableBodies ==
    { WellFormed(JsonObject(<<Member("username", JsonNumber(42))>>)),
      WellFormed(JsonObject(<<>>)),
      Malformed }

\* The request fails boundary decoding: a path that is no identifier, or a
\* body that is no CreateUser.
Undecodable(rq) ==
    \/ rq.method = "GET" /\ rq.user_id = BadPath
    \/ rq.method = "POST" /\ rq.body \in UndecodableBodies

\* C7: a request that fails boundary decoding is answered without any
\* repository call for it, its handler never runs, and its response is none
\* of the responses of the error mapping.
C7_DecodingErrorsStayAtBoundary ==
    \A r \in Slots :
        Undecodable(req[r]) =>
            /\ pc[r] = "done"
            /\ ret[r] = NoCall
            /\ resp[r] \notin {into_response(From(e)) : e \in UserRepoError}

\* C7 happens: a GET with a malformed identifier and a POST with a body that
\* is not JSON were both answered.
C7_Witness ==
    \E r, s \in Slots :
        /\ pc[r] = "done" /\ req[r].method = "GET" /\ req[r].user_id = BadPath
        /\ pc[s] = "done" /\ req[s].method = "POST" /\ req[s].body = Malformed

\* C8: a GET /users/{id} for an identifier that a POST /users returned is
\* never rejected at the boundary; find is called and answers by the stub rule
\* alone: 404 when the identifier starts with 'a', 200 otherwise.
C8_CreatedIdLookup ==
    \A r \in Slots, i \in 1..Len(created) :
        pc[r] = "done" /\ req[r].method = "GET" /\ req[r].user_id = created[i].id =>
            /\ ret[r] # NoCall
            /\ resp[r].content_type = JsonContentType
            /\ resp[r].status = IF created[i].id[1] = "a" THEN 404 ELSE 200

\* C8 happens: a user was created and the lookup of its identifier was
\* answered 404.
C8_Witness ==
    \E r \in Slots, i \in 1..Len(created) :
        /\ pc[r] = "done"
        /\ req[r].method = "GET"
        /\ req[r].user_id = created[i].id
        /\ resp[r].status = 404

\* Sixteen bytes.
WellFormedId(id) == DOMAIN id = 1..16 /\ \A k \in 1..16 : id[k] \in 0..255

\* C9: every User a repository call returned has a well-formed identifier and
\* a non-empty username; from find, the identifier is the requested one and
\* the username is "example".
C9_ReturnedUserWellFormed ==
    \A r \in Slots :
        ret[r].tag = "Ok" =>
            /\ WellFormedId(ret[r].user.id)
            /\ ret[r].user.username # ""
            /\ req[r].method = "GET" =>
                  /\ ret[r].user.username = "example"
                  /\ \A id \in IdsInPlay :
                        req[r].user_id \in Forms(id) => ret[r].user.id = id

\* C9 happens: find returned a user for one request and create for another.
C9_Witness ==
    \E r, s \in Slots :
        /\ req[r].method = "GET" /\ ret[r].tag = "Ok"
        /\ req[s].method = "POST" /\ ret[s].tag = "Ok"

\* The response to GET request rq when it is the only request served.
ServedAlone(rq) ==
    LET e == PathExtract(rq)
    IN  IF e.ok THEN HandlerResponse(find(e.value)) ELSE e.response

\* Every answered GET has the response it has when served alone.
AnsweredAsAlone ==
    \A r \in Slots :
        pc[r] = "done" /\ req[r].method = "GET" => resp[r] = ServedAlone(req[r])

\* C10: in every interleaving of the requests no step changes the repository,
\* and every GET is answered as it is when served alone.
C10_StatelessOrderInsensitive ==
    /\ [][repo' = repo]_vars
    /\ []AnsweredAsAlone

\* C10 happens: a GET that reached find is answered while a POST handled
\* alongside it has created a user.
C10_Witness ==
    \E r, s \in Slots :
        /\ pc[r] = "done" /\ req[r].method = "GET" /\ ret[r] # NoCall
        /\ pc[s] = "done" /\ req[s].method = "POST" /\ ret[s].tag = "Ok"
====
